---------------------------- MODULE Spec2Model ----------------------------
(***************************************************************************)
(* A model of src/uesf/app.js: the address search page.                    *)
(*                                                                         *)
(* The page has two asynchronous flows that run on one event loop:         *)
(*   - the search pipeline started by the form's submit event              *)
(*     (geocode -> isochrone -> filter -> rank -> render), and             *)
(*   - the address autocomplete (input event -> debounce timer ->          *)
(*     suggestion fetch -> render), with its keyboard navigation.          *)
(* Every event handler runs to its next await atomically; an await on a    *)
(* fetch is a request in flight whose response is a later step.            *)
(***************************************************************************)
EXTENDS Integers, Sequences, FiniteSets, TLC

(***************************************************************************)
(* Bounds of the model (not program constants).                            *)
(***************************************************************************)
\* Search runs that may be in flight at once.
MaxRuns == 2
\* Suggestion fetches that may be in flight at once.
MaxFetches == 1
\* Blur timers (the 150 ms hide timers of app.js:434) pending at once.
MaxBlurTimers == 1

(***************************************************************************)
(* Program constants.                                                      *)
(***************************************************************************)
AUTOCOMPLETE_MIN_CHARS == 3

(***************************************************************************)
(* Text.  A string is a sequence of one-character strings, so that trim()  *)
(* and length are computed and not assumed.                                *)
(***************************************************************************)
RECURSIVE TrimStart(_)
TrimStart(s) ==
    IF s # <<>> /\ Head(s) = " " THEN TrimStart(Tail(s)) ELSE s

RECURSIVE TrimEnd(_)
TrimEnd(s) ==
    IF s # <<>> /\ s[Len(s)] = " " THEN TrimEnd(SubSeq(s, 1, Len(s) - 1)) ELSE s

\* trim() left out: the value as it stands in the field.
Trim_None(s) == s

\* String.prototype.trim
Trim(s) == TrimEnd(TrimStart(s))

\* The values the user can leave in the address field with one input event.
TypedValues ==
    { <<" ", " ", " ">>,
      <<" ", "a", "b", " ">>,
      <<"a", "b", "c">>,
      <<"a", "b", "c", "d", " ">> }

\* place_name values the geocoding service may return as suggestions.
PlaceNames == << <<"a", "b", "c", "d">>, <<"a", "b", "c", "e">> >>

(***************************************************************************)
(* Geometry.  Coordinates are whole degrees, a point is <<lng, lat>>.      *)
(***************************************************************************)
\* The catalogue (the global SFUSD_SCHOOLS read at app.js:463), in its
\* iteration order.
SFUSD_SCHOOLS ==
    << [name |-> "Gamma", lng |-> 4, lat |-> 4],
       [name |-> "Alpha", lng |-> 2, lat |-> 2],
       [name |-> "Beta",  lng |-> 6, lat |-> 2] >>

\* Rings the isochrone service may return (GeoJSON rings repeat the first
\* vertex at the end).
RingAll  == << <<0, 0>>, <<8, 0>>, <<8, 6>>, <<0, 6>>, <<0, 0>> >>
RingWest == << <<0, 0>>, <<5, 0>>, <<5, 6>>, <<0, 6>>, <<0, 0>> >>
RingTri  == << <<0, 0>>, <<7, 0>>, <<0, 7>>, <<0, 0>> >>
RingNone == << <<7, 5>>, <<8, 5>>, <<8, 6>>, <<7, 6>>, <<7, 5>> >>
\* A hole of RingWest around the school Alpha, a ring that is a line walked
\* there and back, and a ring that is one point.
RingHole == << <<1, 1>>, <<3, 1>>, <<3, 3>>, <<1, 3>>, <<1, 1>> >>
RingLine == << <<0, 0>>, <<8, 6>>, <<0, 0>> >>
RingPoint == << <<4, 2>>, <<4, 2>>, <<4, 2>>, <<4, 2>> >>

\* One edge of the ray-casting loop: the edge from polygon[j] to polygon[i].
\* The code compares px with ((xj - xi) * (py - yi)) / (yj - yi) + xi; the
\* first conjunct makes yj # yi, and the comparison is done exactly here by
\* multiplying with the sign of the divisor.
EdgeIntersects(px, py, xi, yi, xj, yj) ==
    /\ (yi > py) # (yj > py)
    /\ LET num == (xj - xi) * (py - yi)
           den == yj - yi
       IN  IF den > 0 THEN (px - xi) * den < num
                      ELSE (px - xi) * den > num

\* for (let i = 0, j = polygon.length - 1; i < polygon.length; j = i++)
\* with the 1-based indices of a TLA+ sequence.
RECURSIVE PipLoop(_, _, _, _, _, _)
PipLoop(px, py, polygon, i, j, inside) ==
    IF i > Len(polygon) THEN inside
    ELSE LET hit == EdgeIntersects(px, py, polygon[i][1], polygon[i][2],
                                   polygon[j][1], polygon[j][2])
         IN  PipLoop(px, py, polygon, i + 1, i,
                     IF hit THEN ~inside ELSE inside)

pointInPolygon(point, polygon) ==
    PipLoop(point[1], point[2], polygon, 1, Len(polygon), FALSE)

\* haversineDistance evaluated with R = 6371000 on whole-degree arguments,
\* in whole meters.  The value depends on the two latitudes and on the
\* squared sine of half the longitude difference, so the table is keyed by
\* <<lat1, lat2, |lon2 - lon1|>>.
HaversineTable ==
    [k \in {2, 4} \X {2, 4} \X {0, 2, 4} |->
        CASE k = <<2, 2, 0>> -> 0
          [] k = <<2, 2, 2>> -> 222254
          [] k = <<2, 2, 4>> -> 444509
          [] k = <<2, 4, 0>> -> 222390
          [] k = <<2, 4, 2>> -> 314283
          [] k = <<2, 4, 4>> -> 496713
          [] k = <<4, 2, 0>> -> 222390
          [] k = <<4, 2, 2>> -> 314283
          [] k = <<4, 2, 4>> -> 496713
          [] k = <<4, 4, 0>> -> 0
          [] k = <<4, 4, 2>> -> 221848
          [] k = <<4, 4, 4>> -> 443696]

Abs(n) == IF n < 0 THEN -n ELSE n

haversineDistance(lat1, lon1, lat2, lon2) ==
    HaversineTable[<<lat1, lat2, Abs(lon2 - lon1)>>]

(***************************************************************************)
(* Sequences.                                                              *)
(***************************************************************************)
\* SFUSD_SCHOOLS.filter(school => pointInPolygon([school.lng, school.lat], ring))
RECURSIVE FilterInside(_, _)
FilterInside(schools, ring) ==
    IF schools = <<>> THEN <<>>
    ELSE IF pointInPolygon(<<Head(schools).lng, Head(schools).lat>>, ring)
         THEN <<Head(schools)>> \o FilterInside(Tail(schools), ring)
         ELSE FilterInside(Tail(schools), ring)

RemoveAt(s, i) == SubSeq(s, 1, i - 1) \o SubSeq(s, i + 1, Len(s))

\* A sort that is not stable: x is inserted before the elements that
\* compare equal to it.
RECURSIVE InsertSorted_BeforeEqual(_, _)
InsertSorted_BeforeEqual(s, x) ==
    IF s = <<>> THEN <<x>>
    ELSE IF Head(s).distance - x.distance >= 0
         THEN <<x>> \o s
         ELSE <<Head(s)>> \o InsertSorted_BeforeEqual(Tail(s), x)

\* Insert x into the sorted sequence s behind every element that does not
\* compare greater than x.
RECURSIVE InsertSorted(_, _)
InsertSorted(s, x) ==
    IF s = <<>> THEN <<x>>
    ELSE IF Head(s).distance - x.distance > 0
         THEN <<x>> \o s
         ELSE <<Head(s)>> \o InsertSorted(Tail(s), x)

\* The schools left in the order of the catalogue.
SortByDistance_Unsorted(s) == s

\* schools.sort((a, b) => a.distance - b.distance): Array.prototype.sort
\* is a stable sort.
RECURSIVE SortByDistance(_)
SortByDistance(s) ==
    IF s = <<>> THEN <<>>
    ELSE InsertSorted(SortByDistance(SubSeq(s, 1, Len(s) - 1)), s[Len(s)])


(***************************************************************************)
(* The network.  A fetch either rejects (a transport failure: a TypeError  *)
(* whose message depends on the browser) or resolves to a response with    *)
(* ok, status and a JSON body.  A message is a sequence of fragments cut   *)
(* so that the substrings handleError looks for are fragments.             *)
(***************************************************************************)
Includes(message, fragment) == \E k \in 1..Len(message) : message[k] = fragment

\* The messages of the TypeError a failed fetch rejects with: the browser
\* chooses the text ("Failed to fetch" in Chromium, "Load failed" in
\* WebKit).
FetchFailureMessages ==
    { <<"Failed to ", "fetch">>,
      <<"Load failed">> }

HttpStatuses == {"404", "500"}

Rejected(message) == [kind |-> "rejected", name |-> "TypeError", message |-> message]
HttpFailure(status) == [kind |-> "response", ok |-> FALSE, status |-> status, features |-> <<>>]
HttpOk(features) == [kind |-> "response", ok |-> TRUE, status |-> "200", features |-> features]

TransportFailures == { Rejected(m) : m \in FetchFailureMessages }
HttpFailures == { HttpFailure(st) : st \in HttpStatuses }

\* Places the geocoder may resolve a query to: center and place_name.
PlaceA == [center |-> <<4, 2>>, place_name |-> "Fourth and Second"]
PlaceB == [center |-> <<6, 4>>, place_name |-> "Sixth and Fourth"]
GeocodeFeatures == {PlaceA, PlaceB}

\* Outcomes of the geocoding fetch (limit=1: at most one feature) when the
\* geocoder knows the given places.
GeocodeOutcomesFor(places) ==
    TransportFailures \cup HttpFailures \cup {HttpOk(<<>>)}
        \cup { HttpOk(<<f>>) : f \in places }

GeocodeOutcomes == GeocodeOutcomesFor(GeocodeFeatures)

\* Outcomes of the isochrone fetch; a feature is its geometry.coordinates,
\* a sequence of rings.
IsochroneOutcomes ==
    TransportFailures \cup HttpFailures \cup {HttpOk(<<>>)}
        \cup { HttpOk(<< <<ring>> >>) : ring \in {RingAll, RingWest, RingTri, RingNone} }

\* The same with the responses that carry more than one ring: a polygon
\* with a hole followed by a second feature, and the two degenerate rings.
PipelineIsochroneOutcomes ==
    IsochroneOutcomes
        \cup { HttpOk(<< <<RingWest, RingHole>>, <<RingAll>> >>),
               HttpOk(<< <<RingLine>> >>),
               HttpOk(<< <<RingPoint>> >>) }

\* Outcomes of the autocomplete fetch; a feature is its place_name.
SuggestOutcomes ==
    TransportFailures \cup HttpFailures
        \cup { HttpOk(SubSeq(PlaceNames, 1, n)) : n \in 0..Len(PlaceNames) }

\* The result of an async function: it throws err or returns value.
Throw(name, message) == [threw |-> TRUE, err |-> [name |-> name, message |-> message], value |-> <<>>]
Return(value) == [threw |-> FALSE, err |-> [name |-> "", message |-> <<>>], value |-> value]

\* geocodeAddress without its check of response.ok.
geocodeAddress_IgnoresStatus(outcome) ==
    IF outcome.kind = "rejected" THEN Throw(outcome.name, outcome.message)
    ELSE IF Len(outcome.features) = 0
    THEN Throw("Error", <<"Address not found", ". Please try a more specific address.">>)
    ELSE Return([lng |-> outcome.features[1].center[1],
                 lat |-> outcome.features[1].center[2],
                 placeName |-> outcome.features[1].place_name])

geocodeAddress(outcome) ==
    IF outcome.kind = "rejected" THEN Throw(outcome.name, outcome.message)
    ELSE IF ~outcome.ok
    THEN Throw("Error", <<"Geocoding failed", " (HTTP ", outcome.status, ")">>)
    ELSE IF Len(outcome.features) = 0
    THEN Throw("Error", <<"Address not found", ". Please try a more specific address.">>)
    ELSE Return([lng |-> outcome.features[1].center[1],
                 lat |-> outcome.features[1].center[2],
                 placeName |-> outcome.features[1].place_name])

fetchIsochrone(outcome) ==
    IF outcome.kind = "rejected" THEN Throw(outcome.name, outcome.message)
    ELSE IF ~outcome.ok
    THEN Throw("Error", <<"Isochrone", " API failed (HTTP ", outcome.status, ")">>)
    ELSE IF Len(outcome.features) = 0
    THEN Throw("Error", <<"Could not generate walking distance area for this location.">>)
    ELSE Return(outcome.features)

\* The place names of the suggestions (text and context are derived from
\* place_name for display only).
fetchSuggestions(outcome) ==
    IF outcome.kind = "rejected" THEN Throw(outcome.name, outcome.message)
    ELSE IF ~outcome.ok THEN Return(<<>>)
    ELSE Return(outcome.features)

\* The message handleError hands to setStatus(userMessage, true).
handleError(err) ==
    IF Includes(err.message, "Address not found")
    THEN err.message
    ELSE IF Includes(err.message, "Geocoding failed")
    THEN <<"Could not look up that address. Please check your input and try again.">>
    ELSE IF Includes(err.message, "Isochrone")
    THEN <<"Could not calculate walking distance from this location. Try a different address.">>
    ELSE IF err.name = "TypeError" /\ Includes(err.message, "fetch")
    THEN <<"Network error. Please check your internet connection.">>
    ELSE <<"An unexpected error occurred. Please try again.">>

\* Steps 3 and 4 of the submit handler: filter the catalogue by the first
\* ring of the first feature, attach the distance, sort.
WithDistance(coords, school) ==
    [name |-> school.name, lng |-> school.lng, lat |-> school.lat,
     distance |-> haversineDistance(coords.lat, coords.lng, school.lat, school.lng)]

\* The filter applied to the first ring of the last feature.
RankedSchools_LastFeature(coords, features) ==
    LET isochronePolygon == features[Len(features)][1]
        inside == FilterInside(SFUSD_SCHOOLS, isochronePolygon)
    IN  SortByDistance([k \in 1..Len(inside) |-> WithDistance(coords, inside[k])])

RankedSchools(coords, features) ==
    LET isochronePolygon == features[1][1]
        inside == FilterInside(SFUSD_SCHOOLS, isochronePolygon)
    IN  SortByDistance([k \in 1..Len(inside) |-> WithDistance(coords, inside[k])])


(***************************************************************************)
(* State.                                                                  *)
(***************************************************************************)
VARIABLES
    \* the address field and the suggestion list
    inputValue,                 \* addressInput.value
    autocompleteItems,          \* the place names of autocompleteList's items
    autocompleteHidden,         \* autocompleteList has class 'hidden'
    activeAutocompleteIndex,    \* app.js:31 (0-based, -1: none)
    autocompleteDebounceTimer,  \* app.js:30 (a timer id, 0: null)
    \* the event loop
    timers,                     \* pending debounce timers: [id, query]
    blurTimers,                 \* pending 150 ms timers of the blur handler
    fetches,                    \* suggestion fetches in flight
    runs,                       \* submit handlers suspended at an await
    \* the search display
    lastSearchedAddress,        \* app.js:32
    resultsItems,               \* the items of resultsList
    resultsHeaderHidden,        \* resultsHeader has class 'hidden'
    noResultsHidden,            \* noResults has class 'hidden'
    status,                     \* statusMessage: hidden, text, className
    loading,                    \* loadingOverlay shown and searchBtn.disabled
    currentMarkers,             \* app.js:29, the markers on the map
    mapSource,                  \* the data of the map's 'isochrone' source
    mapLayers,                  \* the ids of the map's isochrone layers
    \* history: what the program does not store, kept to state properties
    lastTyped,                  \* the value of the last input event
    resultsBy,                  \* who rendered the results: none/fresh/stale
    statusBy,                   \* who set the status message
    autocompleteBy,             \* who rendered the suggestion list
    submitRejected,             \* the last event was a submit that returned
                                \* at app.js:445
    submittedSinceInput,        \* a search has been submitted since the last
                                \* input event
    \* the arguments and results of the pure functions examined on their own
    probe

autocompleteVars ==
    <<inputValue, autocompleteItems, autocompleteHidden, activeAutocompleteIndex,
      autocompleteDebounceTimer, timers, blurTimers, fetches, lastTyped,
      autocompleteBy>>

resultsVars ==
    <<resultsItems, resultsHeaderHidden, noResultsHidden, currentMarkers,
      mapSource, mapLayers, resultsBy>>

searchVars ==
    <<runs, lastSearchedAddress, resultsVars, status, statusBy, loading>>

pageVars == <<autocompleteVars, searchVars, submitRejected, submittedSinceInput>>

vars == <<pageVars, probe>>

NoCoords == [lng |-> 0, lat |-> 0, placeName |-> ""]
NoSource == <<>>

\* A run (a timer's callback, a fetch) is marked superseded, in the model
\* only, when a later event makes it out of date.
Supersede(s) == [k \in 1..Len(s) |-> [s[k] EXCEPT !.superseded = TRUE]]
By(x) == IF x.superseded THEN "stale" ELSE "fresh"

\* The page after the script has run (app.js:28-32 and the document).
PageInit ==
    /\ inputValue = <<>>
    /\ autocompleteItems = <<>>
    /\ autocompleteHidden = TRUE
    /\ activeAutocompleteIndex = -1
    /\ autocompleteDebounceTimer = 0
    /\ timers = {}
    /\ blurTimers = 0
    /\ fetches = <<>>
    /\ runs = <<>>
    /\ lastSearchedAddress = <<>>
    /\ resultsItems = <<>>
    /\ resultsHeaderHidden = TRUE
    /\ noResultsHidden = TRUE
    /\ status = [hidden |-> TRUE, text |-> <<>>, className |-> ""]
    /\ loading = FALSE
    /\ currentMarkers = <<>>
    /\ mapSource = NoSource
    /\ mapLayers = {}
    /\ lastTyped = <<>>
    /\ resultsBy = "none"
    /\ statusBy = "none"
    /\ autocompleteBy = "none"
    /\ submitRejected = FALSE
    /\ submittedSinceInput = FALSE

\* No pure function is examined on its own.
NoProbe == [fn |-> "none"]

Init ==
    /\ PageInit
    /\ probe = NoProbe

\* Every event but a rejected submit.
NotRejectedSubmit ==
    /\ submitRejected' = FALSE
    /\ UNCHANGED probe

\* Every event that is neither an input event nor a submit.
NeitherInputNorSubmit ==
    /\ NotRejectedSubmit
    /\ UNCHANGED submittedSinceInput

(***************************************************************************)
(* Autocomplete.                                                           *)
(***************************************************************************)
\* clearTimeout that cancels nothing.
clearTimeout_Noop(pending, id) == pending

\* clearTimeout(id)
clearTimeout(pending, id) == { t \in pending : t.id # id }

\* setTimeout returns an id that no pending timer and no variable holds.
FreshTimerId(pending, held) ==
    CHOOSE id \in 1..(Cardinality(pending) + 2) :
        /\ id # held
        /\ \A t \in pending : t.id # id
        /\ \A smaller \in 1..(id - 1) :
              smaller = held \/ \E t \in pending : t.id = smaller

\* The input handler with the threshold applied to the untrimmed value.
TimersAfterInput_Untrimmed(v) ==
    LET query == Trim(v)
        cleared == clearTimeout(timers, autocompleteDebounceTimer)
    IN  IF Len(v) < AUTOCOMPLETE_MIN_CHARS
        THEN cleared
        ELSE cleared \cup
               { [id |-> FreshTimerId(cleared, autocompleteDebounceTimer),
                  query |-> query] }

\* The timers left pending by the input handler for the field's value v.
TimersAfterInput(v) ==
    LET query == Trim(v)
        cleared == clearTimeout(timers, autocompleteDebounceTimer)
    IN  IF Len(query) < AUTOCOMPLETE_MIN_CHARS
        THEN cleared
        ELSE cleared \cup
               { [id |-> FreshTimerId(cleared, autocompleteDebounceTimer),
                  query |-> query] }

\* addressInput's 'input' listener (app.js:394-408)
InputEvent(v) ==
    LET query == Trim(v)
        cleared == clearTimeout(timers, autocompleteDebounceTimer)
    IN  /\ inputValue' = v
        /\ lastTyped' = v
        /\ fetches' = Supersede(fetches)
        /\ timers' = TimersAfterInput(v)
        /\ IF Len(query) < AUTOCOMPLETE_MIN_CHARS
           THEN /\ autocompleteHidden' = TRUE
                /\ autocompleteItems' = <<>>
                /\ autocompleteBy' = "none"
                /\ UNCHANGED autocompleteDebounceTimer
           ELSE /\ autocompleteDebounceTimer' =
                      FreshTimerId(cleared, autocompleteDebounceTimer)
                /\ UNCHANGED <<autocompleteHidden, autocompleteItems, autocompleteBy>>
        /\ UNCHANGED <<activeAutocompleteIndex, blurTimers, searchVars>>
        /\ NotRejectedSubmit
        /\ submittedSinceInput' = FALSE

\* The debounce callback reading the field when it fires.
DebounceQuery_ReadsField(t) == Trim(inputValue)

\* The query the debounce callback fetches suggestions for: the one its
\* closure captured.
DebounceQuery(t) == t.query

\* The debounce callback up to its await (app.js:404-405)
DebounceFire(t) ==
    /\ t \in timers
    /\ Len(fetches) < MaxFetches
    /\ timers' = timers \ {t}
    /\ fetches' = Append(fetches, [query |-> DebounceQuery(t), superseded |-> FALSE])
    /\ UNCHANGED <<inputValue, autocompleteItems, autocompleteHidden,
                   activeAutocompleteIndex, autocompleteDebounceTimer, blurTimers,
                   lastTyped, autocompleteBy, searchVars>>
    /\ NeitherInputNorSubmit

\* The debounce callback from its await on: renderSuggestions (app.js:345-374,
\* 406).  A rejected fetch ends the callback without rendering.
SuggestResponse(k, outcome) ==
    LET r == fetchSuggestions(outcome)
    IN  /\ k \in 1..Len(fetches)
        /\ fetches' = RemoveAt(fetches, k)
        /\ IF r.threw
           THEN UNCHANGED <<autocompleteItems, autocompleteHidden,
                            activeAutocompleteIndex, autocompleteBy>>
           ELSE /\ autocompleteItems' = r.value
                /\ activeAutocompleteIndex' = -1
                /\ autocompleteHidden' = (Len(r.value) = 0)
                /\ autocompleteBy' =
                      IF Len(r.value) = 0 THEN "none" ELSE By(fetches[k])
        /\ UNCHANGED <<inputValue, autocompleteDebounceTimer, timers, blurTimers,
                       lastTyped, searchVars>>
        /\ NeitherInputNorSubmit

\* The keydown listener returns at once when the list is hidden or empty.
ListOpen == ~autocompleteHidden /\ Len(autocompleteItems) > 0

Min(a, b) == IF a < b THEN a ELSE b
Max(a, b) == IF a > b THEN a ELSE b

\* keydown, 'ArrowDown' (app.js:416-419)
ArrowDown ==
    /\ ListOpen
    /\ activeAutocompleteIndex' =
          Min(activeAutocompleteIndex + 1, Len(autocompleteItems) - 1)
    /\ UNCHANGED <<inputValue, autocompleteItems, autocompleteHidden,
                   autocompleteDebounceTimer, timers, blurTimers, fetches,
                   lastTyped, autocompleteBy, searchVars>>
    /\ NeitherInputNorSubmit

\* keydown, 'ArrowUp' (app.js:420-423)
ArrowUp ==
    /\ ListOpen
    /\ activeAutocompleteIndex' = Max(activeAutocompleteIndex - 1, 0)
    /\ UNCHANGED <<inputValue, autocompleteItems, autocompleteHidden,
                   autocompleteDebounceTimer, timers, blurTimers, fetches,
                   lastTyped, autocompleteBy, searchVars>>
    /\ NeitherInputNorSubmit

\* keydown, 'Escape' (app.js:427-430)
Escape ==
    /\ ListOpen
    /\ autocompleteHidden' = TRUE
    /\ activeAutocompleteIndex' = -1
    /\ fetches' = Supersede(fetches)
    /\ UNCHANGED <<inputValue, autocompleteItems, autocompleteDebounceTimer,
                   timers, blurTimers, lastTyped, autocompleteBy, searchVars>>
    /\ NeitherInputNorSubmit

\* The blur listener (app.js:433-434): it only starts a timer.
BlurEvent ==
    /\ blurTimers < MaxBlurTimers
    /\ blurTimers' = blurTimers + 1
    /\ fetches' = Supersede(fetches)
    /\ UNCHANGED <<inputValue, autocompleteItems, autocompleteHidden,
                   activeAutocompleteIndex, autocompleteDebounceTimer, timers,
                   lastTyped, autocompleteBy, searchVars>>
    /\ NeitherInputNorSubmit

\* The blur listener's timer callback (app.js:435-436)
BlurTimerFire ==
    /\ blurTimers > 0
    /\ blurTimers' = blurTimers - 1
    /\ autocompleteHidden' = TRUE
    /\ activeAutocompleteIndex' = -1
    /\ UNCHANGED <<inputValue, autocompleteItems, autocompleteDebounceTimer,
                   timers, fetches, lastTyped, autocompleteBy, searchVars>>
    /\ NeitherInputNorSubmit


(***************************************************************************)
(* Search.                                                                 *)
(***************************************************************************)
\* handleError's setStatus(userMessage, true) (app.js:281-289, 322)
ErrorStatus(err) == [hidden |-> FALSE, text |-> handleError(err), className |-> ""]

\* setStatus('', false): only the class 'hidden' is added
HiddenStatus == [status EXCEPT !.hidden = TRUE]

\* displayOnMap without the address marker.
MarkersFor_SchoolsOnly(coords, schools) ==
    [k \in 1..Len(schools) |->
        [kind |-> "school", lng |-> schools[k].lng, lat |-> schools[k].lat,
         schoolIndex |-> k - 1]]

\* The markers displayOnMap leaves in currentMarkers: the address marker,
\* then one marker per school with its _schoolIndex (app.js:141-189).
MarkersFor(coords, schools) ==
    << [kind |-> "address", lng |-> coords.lng, lat |-> coords.lat, schoolIndex |-> -1] >>
    \o [k \in 1..Len(schools) |->
          [kind |-> "school", lng |-> schools[k].lng, lat |-> schools[k].lat,
           schoolIndex |-> k - 1]]

\* displayResultsList without its resultsList.innerHTML = '': the items are
\* appended to those on display.
ItemsFor_Appended(schools, address) ==
    resultsItems \o
        [k \in 1..Len(schools) |->
            [index |-> k - 1, name |-> schools[k].name,
             distance |-> schools[k].distance, formAddress |-> address]]

\* The items displayResultsList appends (app.js:243-271); the select link
\* is built from lastSearchedAddress at the time of rendering.
ItemsFor(schools, address) ==
    [k \in 1..Len(schools) |->
        [index |-> k - 1, name |-> schools[k].name,
         distance |-> schools[k].distance, formAddress |-> address]]

\* The submit listener up to its first await (app.js:442-456), for the
\* field's value.  An empty query returns at once.
SubmitHandler(value) ==
    LET query == Trim(value)
    IN  IF query = <<>>
        THEN /\ submitRejected' = TRUE
             /\ UNCHANGED <<autocompleteHidden, autocompleteItems, autocompleteBy,
                            searchVars, submittedSinceInput, probe>>
        ELSE /\ Len(runs) < MaxRuns
             /\ NotRejectedSubmit
             /\ submittedSinceInput' = TRUE
             /\ autocompleteHidden' = TRUE
             /\ autocompleteItems' = <<>>
             /\ autocompleteBy' = "none"
             \* clearPreviousResults
             /\ resultsItems' = <<>>
             /\ resultsHeaderHidden' = TRUE
             /\ noResultsHidden' = TRUE
             /\ currentMarkers' = <<>>
             /\ mapLayers' = {}
             /\ mapSource' = NoSource
             /\ resultsBy' = "none"
             \* showLoading(true); setStatus('', false)
             /\ loading' = TRUE
             /\ status' = HiddenStatus
             /\ statusBy' = "none"
             /\ lastSearchedAddress' = query
             /\ runs' = Append(Supersede(runs),
                               [query |-> query, pc |-> "geocode",
                                coords |-> NoCoords, superseded |-> FALSE])

\* A submit event from the search button or from Enter in the field: the
\* browser sends neither while the button is disabled.
UserSubmit ==
    /\ ~loading
    /\ SubmitHandler(inputValue)
    /\ UNCHANGED <<inputValue, activeAutocompleteIndex, autocompleteDebounceTimer,
                   timers, blurTimers, fetches, lastTyped>>

\* selectSuggestion (app.js:376-382): requestSubmit() dispatches the submit
\* event at once, whatever the state of the button.
selectSuggestion(placeName) ==
    /\ inputValue' = placeName
    /\ activeAutocompleteIndex' = -1
    /\ SubmitHandler(placeName)
    /\ UNCHANGED <<autocompleteDebounceTimer, timers, blurTimers, fetches, lastTyped>>

\* keydown, 'Enter' with an active item (app.js:424-426)
EnterOnSuggestion ==
    /\ ListOpen
    /\ activeAutocompleteIndex >= 0
    /\ selectSuggestion(autocompleteItems[activeAutocompleteIndex + 1])

\* mousedown on the item with index k (app.js:365-368)
MouseDownSuggestion(k) ==
    /\ ~autocompleteHidden
    /\ k \in 1..Len(autocompleteItems)
    /\ selectSuggestion(autocompleteItems[k])

\* A catch block that shows the error and starts the pipeline again.
FailRun_Retry(k, err) ==
    /\ runs' = [runs EXCEPT ![k].pc = "geocode", ![k].coords = NoCoords]
    /\ status' = ErrorStatus(err)
    /\ statusBy' = By(runs[k])
    /\ UNCHANGED <<loading, lastSearchedAddress, resultsVars>>

\* A catch block that swallows the error.
FailRun_Silent(k, err) ==
    /\ runs' = RemoveAt(runs, k)
    /\ loading' = FALSE
    /\ UNCHANGED <<status, statusBy, lastSearchedAddress, resultsVars>>

\* catch (err) { handleError(err) } finally { showLoading(false) }
\* (app.js:479-483): the run with index k ends with an error.
FailRun(k, err) ==
    /\ runs' = RemoveAt(runs, k)
    /\ status' = ErrorStatus(err)
    /\ statusBy' = By(runs[k])
    /\ loading' = FALSE
    /\ UNCHANGED <<lastSearchedAddress, resultsVars>>

\* The submit handler going on to the isochrone request whatever the
\* geocoding step returned.
AfterGeocode_NoAbort(k, r) ==
    /\ runs' = [runs EXCEPT ![k].pc = "isochrone",
                            ![k].coords = IF r.threw THEN NoCoords ELSE r.value]
    /\ UNCHANGED <<lastSearchedAddress, resultsVars, status, statusBy, loading>>

\* What the submit handler does when geocodeAddress has returned coords:
\* it goes on to fetchIsochrone (app.js:456-459).
AfterGeocode(k, r) ==
    IF r.threw
    THEN FailRun(k, r.err)
    ELSE /\ runs' = [runs EXCEPT ![k].pc = "isochrone", ![k].coords = r.value]
         /\ UNCHANGED <<lastSearchedAddress, resultsVars, status, statusBy, loading>>

\* The response to the geocoding fetch of run k arrives.
GeocodeResponse(k, outcome) ==
    /\ k \in 1..Len(runs)
    /\ runs[k].pc = "geocode"
    /\ AfterGeocode(k, geocodeAddress(outcome))
    /\ UNCHANGED autocompleteVars
    /\ NeitherInputNorSubmit

\* displayResultsList leaving noResults as it was.
NoResultsHiddenAfter_Untouched(schools) == noResultsHidden

\* displayResultsList: noResults is shown for an empty list and hidden
\* otherwise (app.js:233-239).
NoResultsHiddenAfter(schools) == Len(schools) # 0

\* Steps 3 to 8 of the submit handler (app.js:462-477) and its finally.
RenderRun(k, features) ==
    LET schools == RankedSchools(runs[k].coords, features)
    IN  \* the handler ends with this step
        /\ runs' = RemoveAt(runs, k)
        \* displayOnMap
        /\ mapSource' = features
        /\ mapLayers' = {"isochrone-fill", "isochrone-outline"}
        /\ currentMarkers' = MarkersFor(runs[k].coords, schools)
        \* displayResultsList
        /\ resultsItems' = ItemsFor(schools, lastSearchedAddress)
        /\ resultsHeaderHidden' = (Len(schools) = 0)
        /\ noResultsHidden' = NoResultsHiddenAfter(schools)
        /\ resultsBy' = By(runs[k])
        \* finally
        /\ loading' = FALSE
        /\ UNCHANGED <<lastSearchedAddress, status, statusBy>>

AfterIsochrone(k, r) ==
    IF r.threw THEN FailRun(k, r.err) ELSE RenderRun(k, r.value)

\* The response to the isochrone fetch of run k arrives.
IsochroneResponse(k, outcome) ==
    /\ k \in 1..Len(runs)
    /\ runs[k].pc = "isochrone"
    /\ AfterIsochrone(k, fetchIsochrone(outcome))
    /\ UNCHANGED autocompleteVars
    /\ NeitherInputNorSubmit

(***************************************************************************)
(* The specifications.  The events of the page and the responses of the    *)
(* two services, drawn from the given sets.                                *)
(***************************************************************************)
\* Typing, the debounce timer and the suggestion request.
SuggestNext(typed, suggestOutcomes) ==
    \/ \E v \in typed : InputEvent(v)
    \/ \E t \in timers : DebounceFire(t)
    \/ \E k \in 1..MaxFetches, outcome \in suggestOutcomes : SuggestResponse(k, outcome)

\* The search pipeline with every kind of outcome of its two requests; the
\* geocoder resolves every address it finds to the same place.  The user
\* types one value, is offered one suggestion and picks it with the mouse:
\* that is what it takes to submit while a search is in flight.
SearchTyped == { <<"a", "b", "c">> }
SearchSuggestOutcomes == { HttpOk(SubSeq(PlaceNames, 1, 1)) }
SearchGeocodeOutcomes == GeocodeOutcomesFor({PlaceA})

SearchNext ==
    \/ SuggestNext(SearchTyped, SearchSuggestOutcomes)
    \/ UserSubmit
    \/ \E k \in 1..Len(PlaceNames) : MouseDownSuggestion(k)
    \/ \E k \in 1..MaxRuns, outcome \in SearchGeocodeOutcomes : GeocodeResponse(k, outcome)
    \/ \E k \in 1..MaxRuns, outcome \in IsochroneOutcomes : IsochroneResponse(k, outcome)

SearchSpec == Init /\ [][SearchNext]_vars

\* The autocomplete with every typed value, every key and every outcome of
\* its request; every search ends at its geocoding step.
AutocompleteGeocodeOutcomes == { HttpOk(<<>>) }

AutocompleteNext ==
    \/ SuggestNext(TypedValues, SuggestOutcomes)
    \/ ArrowDown
    \/ ArrowUp
    \/ Escape
    \/ BlurEvent
    \/ BlurTimerFire
    \/ UserSubmit
    \/ EnterOnSuggestion
    \/ \E k \in 1..Len(PlaceNames) : MouseDownSuggestion(k)
    \/ \E k \in 1..MaxRuns, outcome \in AutocompleteGeocodeOutcomes :
          GeocodeResponse(k, outcome)

AutocompleteSpec == Init /\ [][AutocompleteNext]_vars

\* One search at a time (the suggestion service offers nothing to pick),
\* with every place of the geocoder and every response of the isochrone
\* service.
PipelineTyped == { <<"a", "b", "c">>, <<"a", "b", "c", "d", " ">> }
PipelineSuggestOutcomes == { HttpOk(<<>>) }

PipelineNext ==
    \/ SuggestNext(PipelineTyped, PipelineSuggestOutcomes)
    \/ UserSubmit
    \/ \E k \in 1..MaxRuns, outcome \in GeocodeOutcomes : GeocodeResponse(k, outcome)
    \/ \E k \in 1..MaxRuns, outcome \in PipelineIsochroneOutcomes :
          IsochroneResponse(k, outcome)

PipelineSpec == Init /\ [][PipelineNext]_vars


(***************************************************************************)
(* pointInPolygon on its own, in the arithmetic of the code: IEEE doubles. *)
(* A double of the examined inputs is written [n, e] and stands for        *)
(* n / 12 + e * 2^-56 / 3: whole numbers and halves have e = 0, and the    *)
(* double nearest to one third, which JavaScript writes 1/3, is            *)
(* 4/12 - 4 * 2^-56 / 3.  The e part is far smaller than 1/12.             *)
(***************************************************************************)
Whole(k) == [n |-> 12 * k, e |-> 0]
Half(k) == [n |-> 6 * k, e |-> 0]
Third == [n |-> 4, e |-> -4]

\* a < b on doubles
LessThan(a, b) == a.n < b.n \/ (a.n = b.n /\ a.e < b.e)

\* The rounding error, in units of 2^-56 / 3, of the double the code
\* computes for ((xj - xi) * (py - yi)) / (yj - yi) + xi, keyed by
\* <<(xj - xi) * (py - yi), yj - yi, xi>> in units of 1/144, 1/12 and 1/12:
\* the values of the expression evaluated in double arithmetic minus its
\* exact values, for the quotients that are not multiples of 1/4.
RoundingTable ==
    [k \in { <<-360, -36, -12>>, <<-288, -36, -12>>, <<-288, 36, 0>>,
             <<-144, -36, -12>>, <<-144, 36, 0>>, <<-72, 36, 0>>,
             <<72, 36, 0>>, <<144, -36, 12>>, <<144, 36, 0>>,
             <<288, -36, 12>>, <<288, 36, 0>>, <<360, -36, 12>> } |->
        CASE k = <<-360, -36, -12>> -> 8
          [] k = <<-288, -36, -12>> -> -8
          [] k = <<-288, 36, 0>> -> 8
          [] k = <<-144, -36, -12>> -> -16
          [] k = <<-144, 36, 0>> -> 4
          [] k = <<-72, 36, 0>> -> 2
          [] k = <<72, 36, 0>> -> -2
          [] k = <<144, -36, 12>> -> 16
          [] k = <<144, 36, 0>> -> -4
          [] k = <<288, -36, 12>> -> 8
          [] k = <<288, 36, 0>> -> -8
          [] k = <<360, -36, 12>> -> -8]

\* ((xj - xi) * (py - yi)) / (yj - yi) + xi for vertices and py with e = 0
\* and yj # yi.  A quotient that is a multiple of 1/4 is computed exactly.
CrossingX(py, xi, yi, xj, yj) ==
    LET t == (xj.n - xi.n) * (py.n - yi.n)
        den == yj.n - yi.n
        quotient == IF den > 0 THEN t \div den ELSE (-t) \div (-den)
    IN  [n |-> quotient + xi.n,
         e |-> IF t % Abs(den) = 0 /\ quotient % 3 = 0
               THEN 0
               ELSE RoundingTable[<<t, den, xi.n>>]]

\* The crossing test counting only the edges that come down across the ray.
EdgeIntersectsDouble_Downward(px, py, xi, yi, xj, yj) ==
    /\ (yi.n > py.n) /\ ~(yj.n > py.n)
    /\ LessThan(px, CrossingX(py, xi, yi, xj, yj))

\* const intersects = ((yi > py) !== (yj > py)) &&
\*                    (px < ((xj - xi) * (py - yi)) / (yj - yi) + xi);
EdgeIntersectsDouble(px, py, xi, yi, xj, yj) ==
    /\ (yi.n > py.n) # (yj.n > py.n)
    /\ LessThan(px, CrossingX(py, xi, yi, xj, yj))

RECURSIVE PipLoopDouble(_, _, _, _, _, _)
PipLoopDouble(px, py, polygon, i, j, inside) ==
    IF i > Len(polygon) THEN inside
    ELSE LET hit == EdgeIntersectsDouble(px, py, polygon[i][1], polygon[i][2],
                                         polygon[j][1], polygon[j][2])
         IN  PipLoopDouble(px, py, polygon, i + 1, i,
                           IF hit THEN ~inside ELSE inside)

pointInPolygonDouble(point, polygon) ==
    PipLoopDouble(point[1], point[2], polygon, 1, Len(polygon), FALSE)

Reverse(s) == [i \in 1..Len(s) |-> s[Len(s) + 1 - i]]

WholeVertices(s) == [i \in 1..Len(s) |-> <<Whole(s[i][1]), Whole(s[i][2])>>]

\* The polygons examined: the unit square, a triangle with two slanted
\* edges, a polygon that is not convex, and a ring that repeats its first
\* vertex as GeoJSON rings do.
UnitSquare == WholeVertices(<< <<0, 0>>, <<1, 0>>, <<1, 1>>, <<0, 1>> >>)
Triangle == WholeVertices(<< <<0, 0>>, <<1, 3>>, <<-1, 3>> >>)
Arrow == WholeVertices(<< <<0, 0>>, <<2, 0>>, <<2, 2>>, <<1, 1>>, <<0, 2>> >>)
ClosedSquare ==
    WholeVertices(<< <<0, 0>>, <<2, 0>>, <<2, 2>>, <<0, 2>>, <<0, 0>> >>)

ProbePolygons == {UnitSquare, Triangle, Arrow, ClosedSquare}

\* The points examined: <<px, py>>.
ProbePoints ==
    {Whole(-1), Whole(0), Third, Half(1), Whole(1), Whole(2)}
        \X {Whole(0), Half(1), Whole(1), Whole(2), Whole(3)}

Answer(inside) == IF inside THEN "inside" ELSE "outside"

\* The bitwise & in place of &&: both operands are always evaluated.
DivisionEvaluated_Eager(py, yi, yj) == TRUE

\* The right operand of && at app.js:103-104, the one that divides by
\* (yj - yi), is evaluated when the left operand is true and only then.
DivisionEvaluated(py, yi, yj) == (yi.n > py.n) # (yj.n > py.n)

\* What one pass of the loop at app.js:98-109 does for each i: the ordinates
\* of the edge's ends, whether the division was evaluated and whether the
\* edge toggled inside.
EdgeTrace(point, polygon) ==
    [i \in 1..Len(polygon) |->
        LET j == IF i = 1 THEN Len(polygon) ELSE i - 1
        IN  [yi |-> polygon[i][2],
             yj |-> polygon[j][2],
             divided |-> DivisionEvaluated(point[2], polygon[i][2], polygon[j][2]),
             toggled |-> EdgeIntersectsDouble(point[1], point[2],
                                              polygon[i][1], polygon[i][2],
                                              polygon[j][1], polygon[j][2])]]

GeometryInit ==
    /\ PageInit
    /\ probe \in { [fn |-> "pointInPolygon", point |-> point, polygon |-> polygon,
                     forward |-> "unknown", reversed |-> "unknown",
                     edges |-> <<>>] :
                        point \in ProbePoints, polygon \in ProbePolygons }

\* pointInPolygon(point, polygon)
ProbeForward ==
    /\ probe.forward = "unknown"
    /\ probe' = [probe EXCEPT
                    !.forward = Answer(pointInPolygonDouble(probe.point, probe.polygon))]
    /\ UNCHANGED pageVars

\* pointInPolygon(point, polygon.slice().reverse())
ProbeReversed ==
    /\ probe.reversed = "unknown"
    /\ probe' = [probe EXCEPT
                    !.reversed = Answer(pointInPolygonDouble(probe.point,
                                                            Reverse(probe.polygon)))]
    /\ UNCHANGED pageVars

\* The passes of the loop of pointInPolygon(point, polygon), one by one.
ProbeEdges ==
    /\ probe.edges = <<>>
    /\ probe' = [probe EXCEPT !.edges = EdgeTrace(probe.point, probe.polygon)]
    /\ UNCHANGED pageVars

GeometryNext ==
    \/ ProbeForward
    \/ ProbeReversed
    \/ ProbeEdges

GeometrySpec == GeometryInit /\ [][GeometryNext]_vars

(***************************************************************************)
(* formatDistance on its own.  A distance is given in tenths of a meter, a *)
(* text is a sequence of characters.                                       *)
(***************************************************************************)
Digit(d) == <<"0", "1", "2", "3", "4", "5", "6", "7", "8", "9">>[d + 1]

\* The decimal digits of a natural number, as a template literal or toFixed
\* writes them.
RECURSIVE Digits(_)
Digits(n) ==
    IF n < 10 THEN <<Digit(n)>> ELSE Digits(n \div 10) \o <<Digit(n % 10)>>

\* Math.round: the nearest integer, a half rounded up.
MathRound(tenths) == (tenths + 5) \div 10

\* Where the double meters / 1000 lies relative to the exact quotient, for
\* the whole numbers of meters that are halfway between two tenths of a
\* kilometer.
HalfwayDoubles ==
    [m \in { 1050 + 100 * k : k \in 0..19 } \cup {9950, 99950, 222250} |->
        CASE m \in {1250, 1750, 2250, 2750, 222250} -> "exact"
          [] m \in {1050, 1350, 1550, 1850, 2350, 2450, 2850, 2950, 99950} -> "above"
          [] OTHER -> "below"]

\* (meters / 1000).toFixed(1) in tenths of a kilometer: the integer n for
\* which n / 10 is nearest to the double; of two that are equally near, the
\* larger.
ToFixedTenths(tenths) ==
    LET low == tenths \div 1000
        rest == tenths % 1000
    IN  IF rest < 500 THEN low
        ELSE IF rest > 500 THEN low + 1
        ELSE IF HalfwayDoubles[tenths \div 10] = "below" THEN low
        ELSE low + 1

\* formatDistance without its second branch.
formatDistance_AlwaysMeters(tenths) ==
    Digits(MathRound(tenths)) \o <<" ", "m">>

\* formatDistance (app.js:129-134)
formatDistance(tenths) ==
    IF tenths < 10000
    THEN Digits(MathRound(tenths)) \o <<" ", "m">>
    ELSE LET n == ToFixedTenths(tenths)
         IN  Digits(n \div 10) \o <<".", Digit(n % 10)>> \o <<" ", "k", "m">>

\* The distances examined, in tenths of a meter: every multiple of 50 m up
\* to 3 km, the neighbours of the threshold and of a halfway value, large
\* values, and values that are not whole meters.
ProbeDistances ==
    { 500 * k : k \in 0..60 }
        \cup { 10 * m : m \in {1, 9, 10, 99, 999, 1001, 1049, 1051, 9949, 9950, 9951,
                               99950, 222250, 222254} }
        \cup {4, 5, 9994, 9995, 10004}

FormatInit ==
    /\ PageInit
    /\ probe \in { [fn |-> "formatDistance", tenths |-> d, text |-> <<>>] :
                        d \in ProbeDistances }

\* formatDistance(meters)
ProbeFormat ==
    /\ probe.text = <<>>
    /\ probe' = [probe EXCEPT !.text = formatDistance(probe.tenths)]
    /\ UNCHANGED pageVars

FormatNext == ProbeFormat

FormatSpec == FormatInit /\ [][FormatNext]_vars

(***************************************************************************)
(* Stale results (search).                                                 *)
(***************************************************************************)
\* C1: if query B is submitted while query A's run is in flight, then once
\* both runs have finished (no run is in flight) the visible results, map
\* layers and status message were produced by B's run, never by A's.
C1_FinalStateReflectsLatest ==
    runs = <<>> => (resultsBy # "stale" /\ statusBy # "stale")

\* C2: in every reachable state, no result rendering and no error message
\* on display was delivered by a run that a newer submit had superseded.
C2_NoStaleDelivery ==
    resultsBy # "stale" /\ statusBy # "stale"

(***************************************************************************)
(* Autocomplete.                                                           *)
(***************************************************************************)
\* C3: the suggestions of a request are not rendered when an input event, a
\* blur or an Escape dismiss occurred after the request was issued and
\* before it resolved.
C3_NoStaleSuggestions ==
    autocompleteBy # "stale"

ShortValues == { v \in TypedValues : Len(Trim(v)) < AUTOCOMPLETE_MIN_CHARS }
LongValues == { v \in TypedValues : Len(Trim(v)) >= AUTOCOMPLETE_MIN_CHARS }

\* C4: an input event whose trimmed value has fewer than 3 characters
\* leaves no debounce timer pending (it cancels the pending one and starts
\* none), leaves the suggestion list empty and hidden, and issues no fetch;
\* and no pending timer and no fetch in flight is ever for a query of
\* fewer than 3 characters.
C4_ShortInputNoFetch ==
    /\ [](/\ \A t \in timers : Len(t.query) >= AUTOCOMPLETE_MIN_CHARS
          /\ \A k \in 1..Len(fetches) :
                Len(fetches[k].query) >= AUTOCOMPLETE_MIN_CHARS)
    /\ [][\A v \in ShortValues :
            InputEvent(v) =>
                /\ timers' = {}
                /\ autocompleteItems' = <<>>
                /\ autocompleteHidden'
                /\ Len(fetches') = Len(fetches)]_vars

\* A short value (blank after trimming, three characters before) has been
\* typed while a suggestion fetch was in flight.
C4_Witness ==
    /\ lastTyped \in ShortValues
    /\ Len(lastTyped) >= AUTOCOMPLETE_MIN_CHARS
    /\ inputValue = lastTyped
    /\ timers = {}
    /\ fetches # <<>>

\* C5: an input event whose trimmed value has at least 3 characters leaves
\* exactly one debounce timer pending, for that value; when that timer
\* fires (no further input event has cancelled it) exactly one suggestion
\* fetch is issued, for the trimmed value of that input event, and no
\* timer stays pending.
C5_OneFetchPerQuietInput ==
    [][/\ \A v \in LongValues :
            InputEvent(v) =>
                /\ Cardinality(timers') = 1
                /\ \A t \in timers' : t.query = Trim(v)
       /\ \A t \in timers :
            DebounceFire(t) =>
                /\ fetches' = Append(fetches, [query |-> Trim(lastTyped),
                                               superseded |-> FALSE])
                /\ timers' = {}]_vars

\* The timer of the last input event has fired: its fetch is in flight, and
\* the field has since been filled by a picked suggestion.
C5_Witness ==
    /\ timers = {}
    /\ fetches # <<>>
    /\ fetches[Len(fetches)] = [query |-> Trim(lastTyped), superseded |-> FALSE]
    /\ inputValue # lastTyped

\* C6: at most one debounce timer is pending at any time; it is the one
\* autocompleteDebounceTimer holds and it is for the value of the last
\* input event (the last event of a burst).
C6_AtMostOneTimer ==
    /\ Cardinality(timers) <= 1
    /\ \A t \in timers :
          /\ t.id = autocompleteDebounceTimer
          /\ t.query = Trim(lastTyped)

\* A second timer is pending and no fetch was issued: the first timer was
\* cancelled or replaced.
C6_Witness ==
    /\ Cardinality(timers) = 1
    /\ autocompleteDebounceTimer = 2
    /\ fetches = <<>>
    /\ autocompleteItems = <<>>


(***************************************************************************)
(* The pipeline of one run.                                                *)
(***************************************************************************)
\* The results on display change in this step to a rendering.
RenderStep == resultsBy' # "none" /\ resultsVars' # resultsVars

\* C7: a run waits for its isochrone request only with the coordinates its
\* own geocode request resolved to, and results are rendered only in the
\* step in which a run's isochrone request completes successfully.
C7_StepsSequential ==
    /\ [](\A k \in 1..Len(runs) :
            runs[k].pc = "isochrone" =>
                \E f \in GeocodeFeatures :
                    /\ runs[k].coords.lng = f.center[1]
                    /\ runs[k].coords.lat = f.center[2]
                    /\ runs[k].coords.placeName = f.place_name)
    /\ [][RenderStep =>
            \E k \in 1..Len(runs) :
                /\ runs[k].pc = "isochrone"
                /\ runs' = RemoveAt(runs, k)
                /\ mapSource' # NoSource]_vars

\* A run has gone through geocoding and isochrone and has rendered.
C7_Witness ==
    /\ resultsBy = "fresh"
    /\ resultsItems # <<>>
    /\ runs = <<>>

GeocodingFailedMessage ==
    <<"Could not look up that address. Please check your input and try again.">>
AddressNotFoundMessage ==
    <<"Address not found", ". Please try a more specific address.">>

\* C8: when the geocode request of a run completes with a non-success
\* status or with zero matches, the run ends in that step with the
\* corresponding error message on display, no isochrone request is issued
\* and nothing is rendered.
C8_GeocodeFailureAborts ==
    [][\A k \in 1..Len(runs) :
        /\ \A o \in HttpFailures :
              GeocodeResponse(k, o) =>
                  /\ runs' = RemoveAt(runs, k)
                  /\ UNCHANGED resultsVars
                  /\ status' = [hidden |-> FALSE, text |-> GeocodingFailedMessage,
                                className |-> ""]
        /\ GeocodeResponse(k, HttpOk(<<>>)) =>
              /\ runs' = RemoveAt(runs, k)
              /\ UNCHANGED resultsVars
              /\ status' = [hidden |-> FALSE, text |-> AddressNotFoundMessage,
                            className |-> ""]]_vars

\* The only run has failed at its geocoding step with a non-success status.
C8_Witness ==
    /\ runs = <<>>
    /\ statusBy = "fresh"
    /\ status = [hidden |-> FALSE, text |-> GeocodingFailedMessage, className |-> ""]
    /\ resultsItems = <<>>
    /\ mapSource = NoSource

\* C9: in every reachable state in which a search error message is
\* displayed, no facility list, no markers and no region layer are
\* displayed.
C9_NoPartialResults ==
    ~status.hidden =>
        /\ resultsItems = <<>>
        /\ currentMarkers = <<>>
        /\ mapLayers = {}
        /\ mapSource = NoSource

\* The outcome is a successful isochrone response whose ring encloses no
\* school of the catalogue.
EnclosesNone(o) ==
    /\ o.kind = "response"
    /\ o.ok
    /\ Len(o.features) > 0
    /\ FilterInside(SFUSD_SCHOOLS, o.features[1][1]) = <<>>

\* C10: when a run ends at its isochrone step with a successful response
\* whose polygon encloses no candidate, that step leaves an empty result
\* list, the no-results indication shown, the results header hidden, the
\* address marker alone on the map and the status message untouched; and
\* the no-results indication is on display only over an empty list that a
\* run rendered, never put there by a failure.
C10_EmptyResultIsSuccess ==
    /\ [](~noResultsHidden =>
            /\ resultsItems = <<>>
            /\ resultsBy # "none"
            /\ mapSource # NoSource)
    /\ [][\A k \in 1..Len(runs) :
            (runs[k].pc = "isochrone" /\ runs' = RemoveAt(runs, k)) =>
                \A ring \in {RingAll, RingWest, RingTri, RingNone} :
                    (/\ mapSource' = << <<ring>> >>
                     /\ EnclosesNone(HttpOk(<< <<ring>> >>))
                     /\ IsochroneResponse(k, HttpOk(<< <<ring>> >>))) =>
                        /\ resultsItems' = <<>>
                        /\ ~noResultsHidden'
                        /\ resultsHeaderHidden'
                        /\ Len(currentMarkers') = 1
                        /\ UNCHANGED <<status, statusBy>>]_vars

\* The only run has succeeded with no school enclosed: the no-results
\* indication is shown and no error message is.
C10_Witness ==
    /\ runs = <<>>
    /\ resultsBy = "fresh"
    /\ ~noResultsHidden
    /\ resultsItems = <<>>
    /\ status.hidden
    /\ ~loading


(***************************************************************************)
(* Errors and submissions.                                                 *)
(***************************************************************************)
\* The text is empty or consists of spaces only.
Blank(s) == \A i \in 1..Len(s) : s[i] = " "

\* C11: a submit whose query is empty or whitespace-only returns before any
\* network call: the step starts no run (no geocode request), moves no run on
\* (no isochrone request) and leaves the display as it was; and no run in
\* flight is ever for a blank query.
C11_BlankSubmitRejected ==
    /\ [](\A k \in 1..Len(runs) : ~Blank(runs[k].query))
    /\ [][(UserSubmit /\ Blank(inputValue)) =>
            /\ submitRejected'
            /\ UNCHANGED searchVars]_vars

\* A submit of a field holding three spaces has just been rejected.
C11_Witness ==
    /\ submitRejected
    /\ inputValue # <<>>
    /\ Blank(inputValue)
    /\ runs = <<>>
    /\ lastSearchedAddress = <<>>

\* The kinds of search error, by the outcome of the request that failed:
\* zero matches of the geocoder, zero features of the isochrone service, a
\* non-success status, a transport failure.
GeocodeErrorKind(o) ==
    IF o.kind = "rejected" THEN "NetworkError"
    ELSE IF ~o.ok THEN "ServiceError"
    ELSE IF Len(o.features) = 0 THEN "NotFound"
    ELSE "none"

IsochroneErrorKind(o) ==
    IF o.kind = "rejected" THEN "NetworkError"
    ELSE IF ~o.ok THEN "ServiceError"
    ELSE IF Len(o.features) = 0 THEN "NoRegion"
    ELSE "none"

ErrorKinds == {"NotFound", "NoRegion", "ServiceError", "NetworkError"}

GenericMessage == <<"An unexpected error occurred. Please try again.">>

\* The messages handleError shows for the errors of each kind.
MessagesByKind ==
    [kind \in ErrorKinds |->
        { handleError(geocodeAddress(o).err) :
              o \in { g \in GeocodeOutcomes : GeocodeErrorKind(g) = kind } }
        \cup
        { handleError(fetchIsochrone(o).err) :
              o \in { f \in IsochroneOutcomes : IsochroneErrorKind(f) = kind } }]

\* text is a message of its own for kind: not the generic one and not one
\* shown for another kind.
OwnMessage(kind, text) ==
    /\ text # GenericMessage
    /\ \A other \in ErrorKinds \ {kind} : text \notin MessagesByKind[other]

\* C12: whenever a run fails with an error of one of the four kinds, the
\* message the step puts on display is one of that kind only: it differs
\* from the messages of the other kinds and from the generic fallback.
C12_EachKindOwnMessage ==
    [][\A k \in 1..Len(runs) :
        /\ \A o \in SearchGeocodeOutcomes :
              (GeocodeResponse(k, o) /\ GeocodeErrorKind(o) # "none") =>
                  OwnMessage(GeocodeErrorKind(o), status'.text)
        /\ \A o \in IsochroneOutcomes :
              (IsochroneResponse(k, o) /\ IsochroneErrorKind(o) # "none") =>
                  OwnMessage(IsochroneErrorKind(o), status'.text)]_vars

\* The step is a submit the user made: the button or Enter in the field, or
\* a suggestion picked with Enter or the mouse.
UserInitiatedSubmit ==
    \/ UserSubmit
    \/ EnterOnSuggestion
    \/ \E k \in 1..Len(autocompleteItems) : MouseDownSuggestion(k)

IsochroneFailedMessage ==
    <<"Could not calculate walking distance from this location. Try a different address.">>

\* C13: nothing is retried.  A geocode request is issued only by a submit of
\* the user, one per submit, for the query of the field; an isochrone
\* request is issued only by a run whose geocode request has completed, once,
\* and no run goes back to an earlier request; a step that ends a run issues
\* no request, and a step that puts an error on display ends the run that
\* failed.
C13_NoRetry ==
    [][/\ Len(runs') > Len(runs) =>
            /\ UserInitiatedSubmit
            /\ runs' = Append(Supersede(runs),
                              [query |-> Trim(inputValue'), pc |-> "geocode",
                               coords |-> NoCoords, superseded |-> FALSE])
       /\ (Len(runs') = Len(runs) /\ runs' # runs) =>
            \E k \in 1..Len(runs) :
                /\ runs[k].pc = "geocode"
                /\ runs'[k].pc = "isochrone"
                /\ \A j \in 1..Len(runs) : j # k => runs'[j] = runs[j]
       /\ Len(runs') < Len(runs) =>
            \E k \in 1..Len(runs) : runs' = RemoveAt(runs, k)
       /\ (~status'.hidden /\ status' # status) =>
            \E k \in 1..Len(runs) : runs' = RemoveAt(runs, k)]_vars

\* The only run has failed at its isochrone request; no request is in
\* flight and the page waits for the user.
C13_Witness ==
    /\ runs = <<>>
    /\ ~loading
    /\ statusBy = "fresh"
    /\ status = [hidden |-> FALSE, text |-> IsochroneFailedMessage, className |-> ""]
    /\ mapSource = NoSource

\* C14: in every state, whatever requests of earlier runs are still in
\* flight, the user can submit a field that holds a query: the submit is
\* accepted and starts a run (the bound on the runs in flight aside).
C14_SubmitNeverBlocked ==
    (~Blank(inputValue) /\ Len(runs) < MaxRuns) => ENABLED UserSubmit

\* C15: when the suggestion fetch fails, by a non-success status or by a
\* transport failure, the step in which it fails leaves the suggestion
\* list empty and hidden and shows no error.
C15_FailedFetchNoSuggestions ==
    [][\A k \in 1..Len(fetches) :
        \A o \in TransportFailures \cup HttpFailures :
            SuggestResponse(k, o) =>
                /\ autocompleteItems' = <<>>
                /\ autocompleteHidden'
                /\ UNCHANGED <<status, statusBy>>]_vars


(***************************************************************************)
(* Filtering and ranking.                                                  *)
(***************************************************************************)
DistinctVertices(ring) == Cardinality({ ring[i] : i \in 1..Len(ring) })

\* C16: when the isochrone response of a run carries a first ring of fewer
\* than 3 distinct vertices, the run fails in that step: an error message
\* is put on display and nothing is rendered.
C16_DegenerateRingFails ==
    [][\A k \in 1..Len(runs) :
        (runs[k].pc = "isochrone" /\ runs' = RemoveAt(runs, k)) =>
            \A o \in PipelineIsochroneOutcomes :
                (/\ IsochroneErrorKind(o) = "none"
                 /\ DistinctVertices(o.features[1][1]) < 3
                 /\ IsochroneResponse(k, o)) =>
                    /\ ~status'.hidden
                    /\ UNCHANGED resultsVars]_vars

\* The names of the schools of the catalogue that pointInPolygon finds in
\* the ring.
EnclosedNames(ring) ==
    { SFUSD_SCHOOLS[i].name :
        i \in { j \in 1..Len(SFUSD_SCHOOLS) :
                  pointInPolygon(<<SFUSD_SCHOOLS[j].lng, SFUSD_SCHOOLS[j].lat>>, ring) } }

\* The outer ring of the first feature of a successful isochrone response.
FirstRing(o) == o.features[1][1]

\* C17: when a run succeeds, the schools listed by that step are exactly the
\* schools of the catalogue for which pointInPolygon is true of the outer
\* ring of the first feature of the response, each once: none enclosed is
\* missing, none that is not enclosed is present.
C17_ExactlyEnclosed ==
    [][\A k \in 1..Len(runs) :
        (runs[k].pc = "isochrone" /\ runs' = RemoveAt(runs, k)) =>
            \A o \in PipelineIsochroneOutcomes :
                (IsochroneErrorKind(o) = "none" /\ IsochroneResponse(k, o)) =>
                    /\ { resultsItems'[i].name : i \in 1..Len(resultsItems') }
                          = EnclosedNames(FirstRing(o))
                    /\ Len(resultsItems') = Cardinality(EnclosedNames(FirstRing(o)))
                    /\ Len(currentMarkers') = 1 + Len(resultsItems')]_vars

\* A run has succeeded on a response of two features, the first a polygon
\* with a hole: two of the three schools are listed.
C17_Witness ==
    /\ runs = <<>>
    /\ resultsBy = "fresh"
    /\ mapSource = << <<RingWest, RingHole>>, <<RingAll>> >>
    /\ Len(resultsItems) = 2

SchoolNamed(name) ==
    SFUSD_SCHOOLS[CHOOSE i \in 1..Len(SFUSD_SCHOOLS) : SFUSD_SCHOOLS[i].name = name]

\* C18: the list a successful run renders is in ascending order of distance
\* (each item's distance is at most the next item's), and the distance of
\* each item is haversineDistance from the coordinate the run's geocode
\* request resolved to.
C18_AscendingDistance ==
    /\ [](\A i \in 1..(Len(resultsItems) - 1) :
            resultsItems[i].distance <= resultsItems[i + 1].distance)
    /\ [][\A k \in 1..Len(runs) :
            (runs[k].pc = "isochrone" /\ runs' = RemoveAt(runs, k)) =>
                \A o \in PipelineIsochroneOutcomes :
                    (IsochroneErrorKind(o) = "none" /\ IsochroneResponse(k, o)) =>
                        \A i \in 1..Len(resultsItems') :
                            resultsItems'[i].distance =
                                haversineDistance(
                                    runs[k].coords.lat, runs[k].coords.lng,
                                    SchoolNamed(resultsItems'[i].name).lat,
                                    SchoolNamed(resultsItems'[i].name).lng)]_vars

\* All three schools are listed, the nearest first, and the first of the
\* catalogue is not the first of the list.
C18_Witness ==
    /\ runs = <<>>
    /\ resultsBy = "fresh"
    /\ Len(resultsItems) = 3
    /\ resultsItems[1].distance < resultsItems[3].distance
    /\ resultsItems[1].name # SFUSD_SCHOOLS[1].name

CatalogueIndex(name) ==
    CHOOSE i \in 1..Len(SFUSD_SCHOOLS) : SFUSD_SCHOOLS[i].name = name

\* names is the ranking for a resolved coordinate and a ring: the enclosed
\* schools, each once, nearer ones first and equally distant ones in the
\* order of the catalogue.  There is one such sequence.
IsRanking(names, center, ring) ==
    LET dist(n) == haversineDistance(center[2], center[1],
                                     SchoolNamed(n).lat, SchoolNamed(n).lng)
    IN  /\ { names[i] : i \in 1..Len(names) } = EnclosedNames(ring)
        /\ \A i, j \in 1..Len(names) :
              i < j => \/ dist(names[i]) < dist(names[j])
                       \/ /\ dist(names[i]) = dist(names[j])
                          /\ CatalogueIndex(names[i]) < CatalogueIndex(names[j])

\* The fixed inputs of a ranking: a geocode result and an isochrone polygon
\* (the candidate set is the catalogue).
RankingInputs ==
    { f.center : f \in GeocodeFeatures }
        \X { FirstRing(o) : o \in { p \in PipelineIsochroneOutcomes :
                                        IsochroneErrorKind(p) = "none" } }

\* The ranked order as a function of the fixed inputs alone.
RankingOf ==
    [in \in RankingInputs |->
        CHOOSE names \in UNION { [1..n -> { SFUSD_SCHOOLS[i].name :
                                              i \in 1..Len(SFUSD_SCHOOLS) }] :
                                  n \in 0..Len(SFUSD_SCHOOLS) } :
            IsRanking(names, in[1], in[2])]

\* C19: the ranked order on display is a function of the geocode result
\* (the address marker), the isochrone polygon (the map's source) and the
\* catalogue alone: whatever runs and autocomplete events were interleaved
\* with the run that rendered it, the order is the same.
C19_RankingDeterministic ==
    resultsBy # "none" =>
        [i \in 1..Len(resultsItems) |-> resultsItems[i].name]
            = RankingOf[<<currentMarkers[1].lng, currentMarkers[1].lat>>,
                        mapSource[1][1]]

\* A run that a later submit had superseded has rendered three schools, two
\* of them at the same distance, while the later run is still in flight.
C19_Witness ==
    /\ resultsBy = "stale"
    /\ runs # <<>>
    /\ Len(resultsItems) = 3
    /\ resultsItems[1].distance = resultsItems[2].distance


(***************************************************************************)
(* Geometry.                                                               *)
(***************************************************************************)
\* Both results of the examined point and polygon are in.
ProbeDone ==
    /\ probe.fn = "pointInPolygon"
    /\ probe.forward # "unknown"
    /\ probe.reversed # "unknown"

LessOrEqual(a, b) == a = b \/ LessThan(a, b)

\* The point lies on the segment from a to b (the vertices and py have
\* e = 0; a px with e # 0 lies on no slanted or vertical segment between
\* whole vertices).
OnSegment(point, a, b) ==
    LET px == point[1]
        py == point[2]
    IN  IF a[2] = b[2]
        THEN /\ py = a[2]
             /\ \/ LessOrEqual(a[1], px) /\ LessOrEqual(px, b[1])
                \/ LessOrEqual(b[1], px) /\ LessOrEqual(px, a[1])
        ELSE /\ px.e = 0
             /\ (b[1].n - a[1].n) * (py.n - a[2].n)
                    = (b[2].n - a[2].n) * (px.n - a[1].n)
             /\ \/ a[2].n <= py.n /\ py.n <= b[2].n
                \/ b[2].n <= py.n /\ py.n <= a[2].n

OnBoundary(point, polygon) ==
    \E i \in 1..Len(polygon) :
        OnSegment(point, polygon[i],
                  polygon[IF i = 1 THEN Len(polygon) ELSE i - 1])

\* The point is off the boundary by less than the rounding error of a
\* crossing: an edge crosses the point's horizontal at an abscissa that
\* differs from px by the e part only.
WithinRounding(point, polygon) ==
    \E i \in 1..Len(polygon) :
        LET a == polygon[i]
            b == polygon[IF i = 1 THEN Len(polygon) ELSE i - 1]
        IN  /\ (a[2].n > point[2].n) # (b[2].n > point[2].n)
            /\ CrossingX(point[2], a[1], a[2], b[1], b[2]).n = point[1].n

\* For the unit square the centre is inside and (2, 2) is outside, in both
\* orientations.
UnitSquareVectors ==
    (ProbeDone /\ probe.polygon = UnitSquare) =>
        /\ probe.point = <<Half(1), Half(1)>> =>
              (probe.forward = "inside" /\ probe.reversed = "inside")
        /\ probe.point = <<Whole(2), Whole(2)>> =>
              (probe.forward = "outside" /\ probe.reversed = "outside")

\* C20 as stated: for every polygon and every point not on its boundary,
\* pointInPolygon gives the same result for the vertex list and for the
\* reversed vertex list; for the unit square the centre is inside and
\* (2, 2) is outside.
C20_OrientationIndependent ==
    /\ (ProbeDone /\ ~OnBoundary(probe.point, probe.polygon)) =>
          probe.forward = probe.reversed
    /\ UnitSquareVectors

\* C20, restated: for every polygon and every point that is not on its
\* boundary nor within the rounding error of a crossing of it,
\* pointInPolygon gives the same result for the vertex list and for the
\* reversed vertex list; for the unit square the centre is inside and
\* (2, 2) is outside.
C20_OrientationIndependentBeyondRounding ==
    /\ (/\ ProbeDone
        /\ ~OnBoundary(probe.point, probe.polygon)
        /\ ~WithinRounding(probe.point, probe.polygon)) =>
          probe.forward = probe.reversed
    /\ UnitSquareVectors

\* The centre of the unit square has been found inside in both
\* orientations.
C20_Witness ==
    /\ ProbeDone
    /\ probe.polygon = UnitSquare
    /\ probe.point = <<Half(1), Half(1)>>
    /\ probe.forward = "inside"
    /\ probe.reversed = "inside"

(***************************************************************************)
(* Distances as text.                                                      *)
(***************************************************************************)
FormatDone ==
    /\ probe.fn = "formatDistance"
    /\ probe.text # <<>>

\* C21: formatDistance on a whole number of meters: below 1000 it yields
\* the integer meter value with an "m" suffix, and at or above 1000 it
\* yields the value divided by 1000 with exactly one decimal place and a
\* "km" suffix (999 gives "999 m", 1000 gives "1.0 km", 1500 gives
\* "1.5 km").
C21_FormatWholeMeters ==
    (FormatDone /\ probe.tenths % 10 = 0) =>
        LET meters == probe.tenths \div 10
        IN  /\ meters < 1000 => probe.text = Digits(meters) \o <<" ", "m">>
            /\ meters >= 1000 =>
                  \E whole \in 0..(meters \div 1000 + 1), tenth \in 0..9 :
                      /\ probe.text =
                            Digits(whole) \o <<".", Digit(tenth), " ", "k", "m">>
                      /\ Abs(1000 * whole + 100 * tenth - meters) <= 50
            /\ meters = 999 => probe.text = <<"9", "9", "9", " ", "m">>
            /\ meters = 1000 => probe.text = <<"1", ".", "0", " ", "k", "m">>
            /\ meters = 1500 => probe.text = <<"1", ".", "5", " ", "k", "m">>

\* 1500 m has been formatted as "1.5 km".
C21_Witness ==
    /\ FormatDone
    /\ probe.tenths = 15000
    /\ probe.text = <<"1", ".", "5", " ", "k", "m">>

(***************************************************************************)
(* Horizontal edges.                                                       *)
(***************************************************************************)
\* C23: in pointInPolygon a horizontal edge (yi == yj) never registers a
\* crossing and its division by (yj - yi) is never evaluated, for every
\* point and every polygon.
C23_HorizontalEdgeSkipped ==
    probe.fn = "pointInPolygon" =>
        \A i \in 1..Len(probe.edges) :
            probe.edges[i].yi = probe.edges[i].yj =>
                /\ ~probe.edges[i].toggled
                /\ ~probe.edges[i].divided

\* The loop has run for a point on the line of a horizontal edge of the
\* polygon, left of the edge's right end, and has divided for another edge.
C23_Witness ==
    /\ probe.fn = "pointInPolygon"
    /\ probe.polygon = UnitSquare
    /\ probe.point = <<Whole(-1), Whole(0)>>
    /\ \E i \in 1..Len(probe.edges) :
          /\ probe.edges[i].yi = probe.edges[i].yj
          /\ probe.edges[i].yi = probe.point[2]
    /\ \E i \in 1..Len(probe.edges) : probe.edges[i].divided

(***************************************************************************)
(* Ties.                                                                   *)
(***************************************************************************)
\* C22: facilities at equal distance keep their relative catalogue order in
\* the ranked sequence: filtering followed by sorting is stable with
\* respect to the catalogue's iteration order.
C22_TiesInCatalogueOrder ==
    \A i, j \in 1..Len(resultsItems) :
        (i < j /\ resultsItems[i].distance = resultsItems[j].distance) =>
            CatalogueIndex(resultsItems[i].name) < CatalogueIndex(resultsItems[j].name)

\* A finished search lists two schools at the same distance behind each
\* other, the catalogue's first school listed after them.
C22_Witness ==
    /\ runs = <<>>
    /\ resultsBy = "fresh"
    /\ Len(resultsItems) = 3
    /\ resultsItems[1].distance = resultsItems[2].distance
    /\ resultsItems[3].name = SFUSD_SCHOOLS[1].name

(***************************************************************************)
(* One outcome per run.                                                    *)
(***************************************************************************)
\* The step renders the results of run k: the map's layers and the address
\* marker are there, and the list shows its header or the no-results
\* indication.
RendersResultsOf(k) ==
    /\ resultsBy' = By(runs[k])
    /\ mapLayers' # {}
    /\ currentMarkers' # <<>>
    /\ resultsHeaderHidden' # noResultsHidden'
    /\ resultsHeaderHidden' = (resultsItems' = <<>>)

\* The step shows an error message for run k.
ShowsErrorOf(k) ==
    /\ statusBy' = By(runs[k])
    /\ ~status'.hidden
    /\ status'.className = ""
    /\ status'.text # <<>>

\* C24: every run started by a non-empty submit delivers exactly one outcome
\* once its requests complete: the step that ends the run either renders
\* its results or shows its error message, never both and never neither;
\* and a step of a run that does not end it delivers nothing.
C24_ExactlyOneOutcome ==
    [][/\ \A k \in 1..Len(runs) :
            runs' = RemoveAt(runs, k) =>
                \/ /\ RendersResultsOf(k)
                   /\ UNCHANGED <<status, statusBy>>
                \/ /\ ShowsErrorOf(k)
                   /\ UNCHANGED resultsVars
       /\ (Len(runs') = Len(runs)) =>
            UNCHANGED <<resultsVars, status, statusBy>>]_vars

\* Of two runs the older has ended with its error message and the newer is
\* waiting for its isochrone request.
C24_Witness ==
    /\ Len(runs) = 1
    /\ runs[1].pc = "isochrone"
    /\ ~runs[1].superseded
    /\ statusBy = "stale"
    /\ ~status.hidden
    /\ resultsBy = "none"

(***************************************************************************)
(* The loading state.                                                      *)
(***************************************************************************)
\* C25: the loading state tracks the request lifecycle: in every reachable
\* state the loading overlay is shown and the search button disabled
\* exactly when at least one search run is still in flight, so the
\* completion of an older run never turns loading off while a newer run is
\* unfinished.
C25_LoadingTracksRuns ==
    loading <=> (runs # <<>>)

(***************************************************************************)
(* Markers and list items.                                                 *)
(***************************************************************************)
\* C26: after any sequence of submits and completions, the marker array and
\* the rendered result list stay in positional lock-step and come from the
\* same run: currentMarkers is either empty (and then so is the list) or
\* holds the address marker followed by exactly one marker per list item,
\* with currentMarkers[i+1] being the marker of list item i.
C26_MarkersInLockStep ==
    IF currentMarkers = <<>>
    THEN resultsItems = <<>>
    ELSE /\ currentMarkers[1].kind = "address"
         /\ Len(currentMarkers) = Len(resultsItems) + 1
         /\ \A n \in 1..Len(resultsItems) :
               LET marker == currentMarkers[resultsItems[n].index + 2]
               IN  /\ resultsItems[n].index = n - 1
                   /\ marker.kind = "school"
                   /\ marker.schoolIndex = resultsItems[n].index
                   /\ marker.lng = SchoolNamed(resultsItems[n].name).lng
                   /\ marker.lat = SchoolNamed(resultsItems[n].name).lat

\* A run that a later submit had superseded has put its markers and its
\* items, more than one, on display while the later run is in flight.
C26_Witness ==
    /\ runs # <<>>
    /\ resultsBy = "stale"
    /\ Len(currentMarkers) >= 3
    /\ Len(resultsItems) = Len(currentMarkers) - 1

(***************************************************************************)
(* The highlighted suggestion.                                             *)
(***************************************************************************)
\* C27: in every reachable state the highlighted suggestion index is -1 or
\* the index of a currently rendered suggestion item:
\* -1 <= activeAutocompleteIndex < number of items in the suggestion list.
C27_ActiveIndexInRange ==
    /\ -1 <= activeAutocompleteIndex
    /\ activeAutocompleteIndex < Len(autocompleteItems)

(***************************************************************************)
(* The searched address of the select links.                               *)
(***************************************************************************)
\* C29: whenever results are rendered, the searched address attached to
\* them (lastSearchedAddress, used in each result's select link) is the
\* query of the run that produced those results, also when another submit
\* happened while that run was in flight.
C29_LinkAddressOfOwnRun ==
    [][\A k \in 1..Len(runs) :
          (/\ runs[k].pc = "isochrone"
           /\ runs' = RemoveAt(runs, k)
           /\ resultsBy' = By(runs[k])
           /\ UNCHANGED <<status, statusBy>>) =>
              \A n \in 1..Len(resultsItems') :
                  resultsItems'[n].formAddress = runs[k].query]_vars

(***************************************************************************)
(* The suggestion list after a submit.                                     *)
(***************************************************************************)
\* C28: after a search is submitted, the suggestion list stays hidden until
\* the next input event: a debounce timer or suggestion fetch that was
\* pending at the moment of the submit never reopens the list.
C28_ListHiddenAfterSubmit ==
    submittedSinceInput => autocompleteHidden

=============================================================================
